---- MODULE Spec2Model ----
(***************************************************************************)
(* A model of the ALCDEF reader read_alcdef (alcdef_util.py) and of the    *)
(* MPC packed-date decoder _unpack_mpc_date (catalog_utils.py).            *)
(*                                                                         *)
(* A Python str is a sequence of one-character strings, so that            *)
(* startswith, rstrip, lstrip, split, float and int act on characters.     *)
(* A Python list that is shared by reference is a reference (a positive    *)
(* number) into a store; NoRef is a local name that is not yet bound.      *)
(* A float is the exact decimal it was written as: <<n, k>> is n / 10^k,   *)
(* with no trailing zero digit in n when k > 0.                            *)
(***************************************************************************)
EXTENDS Integers, Sequences, FiniteSets, TLC

VARIABLES
    fn,          \* the function that is running
    data,        \* read_alcdef: the lines of the file, list(f)
    pc,          \* "loop" or "unpack" while running, then "returned" or "raised"
    pos,         \* number of lines the for loop has consumed
    mi, li,      \* the locals mi and li: references, NoRef while unbound
    mstore,      \* the metadata line lists allocated so far, by reference
    lstore,      \* the observation row lists allocated so far, by reference
    metadata,    \* the list metadata: references to metadata line lists
    lc,          \* the list lc: references to observation row lists
    delimiter,   \* the local delimiter
    err,         \* the exception raised, "" when none
    result,      \* the value returned: [metadata |-> dicts, lc |-> tables]
    packed_date, \* _unpack_mpc_date: its argument
    date         \* _unpack_mpc_date: its locals and the value it returns, mjd

vars == <<fn, data, pc, pos, mi, li, mstore, lstore, metadata, lc, delimiter,
          err, result, packed_date, date>>

-----------------------------------------------------------------------------
(* Python str operations *)

StartsWith(s, p) ==
    /\ Len(s) >= Len(p)
    /\ SubSeq(s, 1, Len(p)) = p

RECURSIVE RStrip(_, _)
RStrip(s, chars) ==
    IF Len(s) > 0 /\ s[Len(s)] \in chars
    THEN RStrip(SubSeq(s, 1, Len(s) - 1), chars)
    ELSE s

RECURSIVE LStrip(_, _)
LStrip(s, chars) ==
    IF Len(s) > 0 /\ s[1] \in chars
    THEN LStrip(Tail(s), chars)
    ELSE s

\* str.split(sep), sep not empty: the pieces between the non-overlapping
\* occurrences of sep, scanned from the left.
RECURSIVE SplitFrom(_, _, _)
SplitFrom(s, sep, piece) ==
    IF Len(s) = 0 THEN <<piece>>
    ELSE IF StartsWith(s, sep)
         THEN <<piece>> \o SplitFrom(SubSeq(s, Len(sep) + 1, Len(s)), sep, <<>>)
         ELSE SplitFrom(Tail(s), sep, Append(piece, s[1]))

Split(s, sep) == SplitFrom(s, sep, <<>>)

-----------------------------------------------------------------------------
(* Python float(): optional surrounding whitespace, an optional sign,      *)
(* decimal digits with at most one point and at least one digit.           *)

Digits == <<"0", "1", "2", "3", "4", "5", "6", "7", "8", "9">>

IsDigit(c) == \E d \in 1..Len(Digits) : Digits[d] = c

DigitVal(c) == (CHOOSE d \in 1..Len(Digits) : Digits[d] = c) - 1

Whitespace == {" ", "\t", "\n"}

RECURSIVE Normalize(_, _)
Normalize(n, k) ==
    IF k > 0 /\ n % 10 = 0 THEN Normalize(n \div 10, k - 1) ELSE <<n, k>>

\* The digits of s read as a decimal: [ok, n, k, seen] after the scan, n the
\* digits as an integer, k the number of digits after the point.
RECURSIVE ScanDecimal(_, _, _, _, _)
ScanDecimal(s, n, k, point, seen) ==
    IF Len(s) = 0 THEN [ok |-> seen, n |-> n, k |-> k]
    ELSE IF IsDigit(s[1])
         THEN ScanDecimal(Tail(s), 10 * n + DigitVal(s[1]),
                          IF point THEN k + 1 ELSE k, point, TRUE)
         ELSE IF s[1] = "." /\ ~point
              THEN ScanDecimal(Tail(s), n, k, TRUE, seen)
              ELSE [ok |-> FALSE, n |-> 0, k |-> 0]

\* float(s) for a str s: [ok |-> FALSE] is ValueError.
FloatOfStr(s) ==
    LET t == RStrip(LStrip(s, Whitespace), Whitespace)
        signed == Len(t) > 0 /\ t[1] \in {"+", "-"}
        body == IF signed THEN Tail(t) ELSE t
        r == ScanDecimal(body, 0, 0, FALSE, FALSE)
        m == Normalize(r.n, r.k)
    IN  IF r.ok
        THEN [ok |-> TRUE,
              val |-> IF signed /\ t[1] = "-" THEN <<0 - m[1], m[2]>> ELSE m]
        ELSE [ok |-> FALSE, val |-> <<0, 0>>]

-----------------------------------------------------------------------------
(* read_alcdef: the text it matches *)

NL == <<"\n">>
STARTMETADATA == <<"S", "T", "A", "R", "T", "M", "E", "T", "A", "D", "A", "T", "A">>
ENDMETADATA == <<"E", "N", "D", "M", "E", "T", "A", "D", "A", "T", "A">>
ENDDATA == <<"E", "N", "D", "D", "A", "T", "A">>
DATA == <<"D", "A", "T", "A">>
DELIMITER == <<"D", "E", "L", "I", "M", "I", "T", "E", "R">>
PIPE == <<"P", "I", "P", "E">>
TAB == <<"T", "A", "B">>
SPACE == <<"S", "P", "A", "C", "E">>
COMMA == <<"C", "O", "M", "M", "A">>
Columns == <<"JD", "Mag", "DeltaMag", "Airmass">>

\* The value written in place of an empty DeltaMag or Airmass field.
MissingValue == -66

\* A local name that has not been assigned yet.
NoRef == 0

-----------------------------------------------------------------------------
(* read_alcdef: the body of the for loop, on the record of the locals *)

Locals ==
    [mi |-> mi, li |-> li, mstore |-> mstore, lstore |-> lstore,
     metadata |-> metadata, lc |-> lc, delimiter |-> delimiter, err |-> ""]

Raise(s, e) == [s EXCEPT !.err = e]

\* mi = []; li = []: two fresh lists.
OnStartMetadata(s) ==
    [s EXCEPT !.mi = Len(s.mstore) + 1,
              !.li = Len(s.lstore) + 1,
              !.mstore = Append(@, <<>>),
              !.lstore = Append(@, <<>>)]

\* A variant that puts the block at the head of both output lists.
OnEndMetadata_Prepends(s) ==
    IF s.mi = NoRef THEN Raise(s, "UnboundLocalError")
    ELSE [s EXCEPT !.metadata = <<s.mi>> \o @,
                   !.lc = <<s.li>> \o @]

\* metadata.append(mi); lc.append(li): the lists themselves, not copies.
OnEndMetadata(s) ==
    IF s.mi = NoRef THEN Raise(s, "UnboundLocalError")
    ELSE [s EXCEPT !.metadata = Append(@, s.mi),
                   !.lc = Append(@, s.li)]

FloatOfInt(n) == [ok |-> TRUE, val |-> <<n, 0>>]

\* A variant that writes Airmass before DeltaMag.
RowFloats_SwapsLastTwo(tmpvals) ==
    <<FloatOfStr(tmpvals[1]),
      FloatOfStr(tmpvals[2]),
      IF tmpvals[4] = <<>> THEN FloatOfInt(MissingValue) ELSE FloatOfStr(tmpvals[4]),
      IF tmpvals[3] = <<>> THEN FloatOfInt(MissingValue) ELSE FloatOfStr(tmpvals[3])>>

\* tmpvals[2] and tmpvals[3] replaced by -66 when empty, then the four floats.
RowFloats(tmpvals) ==
    <<FloatOfStr(tmpvals[1]),
      FloatOfStr(tmpvals[2]),
      IF tmpvals[3] = <<>> THEN FloatOfInt(MissingValue) ELSE FloatOfStr(tmpvals[3]),
      IF tmpvals[4] = <<>> THEN FloatOfInt(MissingValue) ELSE FloatOfStr(tmpvals[4])>>

\* d.rstrip('\n').lstrip('DATA=').split(delimiter)
DataFields(d, delim) ==
    Split(LStrip(RStrip(d, {"\n"}), {"D", "A", "T", "="}), delim)

\* A variant that passes over a DATA line read while li is not bound.
OnData_SkipsUnbound(s, d) ==
    LET tmpvals == DataFields(d, s.delimiter)
    IN  IF Len(tmpvals) < 4 THEN Raise(s, "IndexError")
        ELSE IF s.li = NoRef THEN s
        ELSE LET f == RowFloats(tmpvals)
             IN  IF \E k \in 1..4 : ~f[k].ok THEN Raise(s, "ValueError")
                 ELSE [s EXCEPT !.lstore[s.li] =
                          Append(@, <<f[1].val, f[2].val, f[3].val, f[4].val>>)]

\* The DATA branch: IndexError for fewer than four fields, UnboundLocalError
\* for li.append with li not bound, ValueError for a field float() rejects.
OnData(s, d) ==
    LET tmpvals == DataFields(d, s.delimiter)
    IN  IF Len(tmpvals) < 4 THEN Raise(s, "IndexError")
        ELSE IF s.li = NoRef THEN Raise(s, "UnboundLocalError")
        ELSE LET f == RowFloats(tmpvals)
             IN  IF \E k \in 1..4 : ~f[k].ok THEN Raise(s, "ValueError")
                 ELSE [s EXCEPT !.lstore[s.li] =
                          Append(@, <<f[1].val, f[2].val, f[3].val, f[4].val>>)]

\* delimiter = d.split('=')[1], then the startswith chain; its last test calls
\* the misspelt method starstwith, which str does not have.
SetDelimiter(s, d) ==
    LET parts == Split(d, <<"=">>)
    IN  IF Len(parts) < 2 THEN Raise(s, "IndexError")
        ELSE IF StartsWith(parts[2], PIPE) THEN [s EXCEPT !.delimiter = <<"|">>]
        ELSE IF StartsWith(parts[2], TAB) THEN [s EXCEPT !.delimiter = <<"\t">>]
        ELSE IF StartsWith(parts[2], SPACE) THEN [s EXCEPT !.delimiter = <<" ">>]
        ELSE Raise([s EXCEPT !.delimiter = parts[2]], "AttributeError")

IsMarker(d) ==
    \/ StartsWith(d, STARTMETADATA)
    \/ StartsWith(d, ENDMETADATA)
    \/ StartsWith(d, ENDDATA)

\* The else branch: markers are skipped, any other line is a metadata line.
OnOther(s, d) ==
    IF IsMarker(d) THEN s
    ELSE IF s.mi = NoRef THEN Raise(s, "UnboundLocalError")
    ELSE LET s1 == [s EXCEPT !.mstore[s.mi] = Append(@, RStrip(d, {"\n"}))]
         IN  IF StartsWith(d, DELIMITER) THEN SetDelimiter(s1, d) ELSE s1

LoopBody(s, d) ==
    LET s1 == IF StartsWith(d, STARTMETADATA) THEN OnStartMetadata(s) ELSE s
        s2 == IF StartsWith(d, ENDMETADATA) THEN OnEndMetadata(s1) ELSE s1
    IN  IF s2.err # "" THEN s2
        ELSE IF StartsWith(d, DATA) THEN OnData(s2, d)
        ELSE OnOther(s2, d)

-----------------------------------------------------------------------------
(* read_alcdef: the two passes after the loop *)

\* md[key] = val for each line in turn, key and val the first two pieces of
\* line.split('=').
RECURSIVE ToDict(_, _)
ToDict(lines, md) ==
    IF Len(lines) = 0 THEN md
    ELSE LET vals == Split(Head(lines), <<"=">>)
             key == vals[1]
             val == vals[2]
         IN  ToDict(Tail(lines),
                    [k \in DOMAIN md \cup {key} |-> IF k = key THEN val ELSE md[k]])

EmptyDict == [k \in {} |-> <<>>]

\* vals[1] of a line without '=' is an IndexError.
DictRaises(lines) ==
    \E n \in 1..Len(lines) : Len(Split(lines[n], <<"=">>)) < 2

DataFrame(rows) == [columns |-> Columns, rows |-> rows]

NoResult == [metadata |-> <<>>, lc |-> <<>>]

-----------------------------------------------------------------------------
(* The files read_alcdef is run on *)

MaxLines == 5     \* longest file of freely ordered lines
MaxBlocks == 2    \* most blocks in a file built block by block

RECURSIVE Join(_, _)
Join(fields, sep) ==
    IF Len(fields) = 0 THEN <<>>
    ELSE IF Len(fields) = 1 THEN fields[1]
    ELSE fields[1] \o sep \o Join(Tail(fields), sep)

RECURSIVE Concat(_)
Concat(seqs) == IF Len(seqs) = 0 THEN <<>> ELSE Head(seqs) \o Concat(Tail(seqs))

Line(text) == text \o NL
DataLine(fields, sep) == Line(DATA \o <<"=">> \o Join(fields, sep))
MetaLine(key, val) == Line(key \o <<"=">> \o val)

L_START == Line(STARTMETADATA)
L_ENDMETA == Line(ENDMETADATA)
L_ENDDATA == Line(ENDDATA)
L_DATA == DataLine(<<<<"1">>, <<"2">>, <<>>, <<"4">>>>, <<"|">>)
L_DATA2 == DataLine(<<<<"5">>, <<"6">>, <<"7">>, <<>>>>, <<"|">>)
L_META == MetaLine(<<"K">>, <<"a">>)
L_META2 == MetaLine(<<"J">>, <<"b">>)
L_BLANK == NL

\* Files of freely ordered lines: markers in any order, DATA lines, metadata
\* lines and blank lines anywhere.
StructLines == {L_START, L_ENDMETA, L_ENDDATA, L_DATA, L_META, L_BLANK}
StructFiles == UNION {[1..n -> StructLines] : n \in 0..MaxLines}

\* Files built block by block: STARTMETADATA, metadata lines, ENDMETADATA,
\* DATA lines, ENDDATA.
MetaParts == {<<>>, <<L_META>>, <<L_META2>>, <<L_META, L_META2>>}
DataParts == {<<>>, <<L_DATA>>, <<L_DATA, L_DATA2>>}
BlockOf(m, d) == <<L_START>> \o m \o <<L_ENDMETA>> \o d \o <<L_ENDDATA>>
BlockSet == {BlockOf(m, d) : m \in MetaParts, d \in DataParts}
BlockFiles == {Concat(bs) : bs \in UNION {[1..n -> BlockSet] : n \in 0..MaxBlocks}}

\* One block whose first DATA line has every combination of field texts in
\* its four fields, alone, cut to three fields, or with a fifth field.
FieldTexts == {<<>>, <<"1">>, <<"-", "6", "6">>, <<"-", "6", "6", ".", "0">>,
               <<"2", ".", "5">>, <<"x">>, <<"=", "7">>}
FieldLists ==
    UNION {{f, SubSeq(f, 1, 3), Append(f, <<"x">>)} : f \in [1..4 -> FieldTexts]}
FieldFiles ==
    {<<L_START, L_ENDMETA, DataLine(f, <<"|">>), L_DATA2, L_ENDDATA>> :
        f \in FieldLists}

\* Two blocks: the first with a DELIMITER line, the second with or without
\* one, the DATA lines of each written with some separator.
DelimiterNames == {PIPE, TAB, SPACE, COMMA, <<"P", "I", "P", "E", "S">>, <<"X">>}
Separators == {<<"|">>, <<"\t">>, <<" ">>, <<",">>}
SomeFields == <<<<"1">>, <<"2">>, <<>>, <<"4">>>>
DelimiterFiles ==
    {<<L_START, MetaLine(DELIMITER, n), L_ENDMETA, DataLine(SomeFields, s1), L_ENDDATA,
       L_START>> \o m2 \o <<L_ENDMETA, DataLine(SomeFields, s2), L_ENDDATA>> :
        n \in DelimiterNames, s1 \in Separators, s2 \in Separators,
        m2 \in {<<>>, <<MetaLine(DELIMITER, PIPE)>>}}

\* One block with two or three metadata lines: repeated keys, values holding
\* '=', an empty value, a line with no '='.
MetaTexts == {MetaLine(<<"K">>, <<"a">>), MetaLine(<<"K">>, <<"b">>),
              MetaLine(<<"J">>, <<"a", "=", "b">>), MetaLine(<<"J">>, <<>>),
              Line(<<"c">>)}
MetaFiles ==
    {<<L_START>> \o m \o <<L_ENDMETA, L_DATA, L_ENDDATA>> \o t :
        m \in UNION {[1..n -> MetaTexts] : n \in 2..3}, t \in {<<>>, <<L_META2>>}}

AlcdefFiles == StructFiles \cup BlockFiles \cup FieldFiles \cup DelimiterFiles \cup MetaFiles

-----------------------------------------------------------------------------
(* read_alcdef as a state machine *)

NoDate ==
    [year |-> 0, month |-> 0, day |-> 0, fractional_day |-> <<>>,
     isot_string |-> <<>>, mjd |-> 0]

\* After data = list(f): lc = [], metadata = [], delimiter = '|', mi and li
\* not bound.
InitAlcdef ==
    /\ fn = "read_alcdef"
    /\ data \in AlcdefFiles
    /\ pc = "loop"
    /\ pos = 0
    /\ mi = NoRef
    /\ li = NoRef
    /\ mstore = <<>>
    /\ lstore = <<>>
    /\ metadata = <<>>
    /\ lc = <<>>
    /\ delimiter = <<"|">>
    /\ err = ""
    /\ result = NoResult
    /\ packed_date = <<>>
    /\ date = NoDate

\* One iteration of "for d in data".
LoopStep ==
    /\ fn = "read_alcdef"
    /\ pc = "loop"
    /\ pos < Len(data)
    /\ LET s == LoopBody(Locals, data[pos + 1])
       IN  /\ mi' = s.mi
           /\ li' = s.li
           /\ mstore' = s.mstore
           /\ lstore' = s.lstore
           /\ metadata' = s.metadata
           /\ lc' = s.lc
           /\ delimiter' = s.delimiter
           /\ err' = s.err
           /\ pc' = IF s.err = "" THEN "loop" ELSE "raised"
    /\ pos' = pos + 1
    /\ UNCHANGED <<fn, data, result, packed_date, date>>

\* After the loop: the metadata line lists become dicts, the row lists become
\* data frames, and both lists are returned.
PostPass ==
    /\ fn = "read_alcdef"
    /\ pc = "loop"
    /\ pos = Len(data)
    /\ IF \/ \E b \in 1..Len(metadata) : DictRaises(mstore[metadata[b]])
          \/ Len(lc) < Len(metadata)
       THEN /\ err' = "IndexError"
            /\ pc' = "raised"
            /\ UNCHANGED result
       ELSE /\ result' =
                [metadata |-> [b \in 1..Len(metadata) |->
                                  ToDict(mstore[metadata[b]], EmptyDict)],
                 lc |-> [b \in 1..Len(lc) |->
                            IF b <= Len(metadata) THEN DataFrame(lstore[lc[b]])
                            ELSE lstore[lc[b]]]]
            /\ pc' = "returned"
            /\ UNCHANGED err
    /\ UNCHANGED <<fn, data, pos, mi, li, mstore, lstore, metadata, lc, delimiter,
                   packed_date, date>>

-----------------------------------------------------------------------------
(* _mpc_lookup and _unpack_mpc_date *)

\* The characters with codes 48 to 90, in code order.
Ascii48 == <<"0", "1", "2", "3", "4", "5", "6", "7", "8", "9",
             ":", ";", "<", "=", ">", "?", "@",
             "A", "B", "C", "D", "E", "F", "G", "H", "I", "J", "K", "L", "M",
             "N", "O", "P", "Q", "R", "S", "T", "U", "V", "W", "X", "Y", "Z">>

Ord(c) == 47 + (CHOOSE n \in 1..Len(Ascii48) : Ascii48[n] = c)

\* int(s) for a str s of at most one character: [ok |-> FALSE] is ValueError.
IntOfStr(s) ==
    IF Len(s) = 1 /\ IsDigit(s[1])
    THEN [ok |-> TRUE, val |-> DigitVal(s[1])]
    ELSE [ok |-> FALSE, val |-> 0]

\* _mpc_lookup(x) for a character x: int(x), else ord(x) - 55; a value
\* outside 0..31 is a ValueError.
mpc_lookup(x) ==
    LET n == IF IntOfStr(<<x>>).ok THEN IntOfStr(<<x>>).val ELSE Ord(x) - 55
    IN  IF n < 0 \/ n > 31 THEN [ok |-> FALSE, val |-> 0]
        ELSE [ok |-> TRUE, val |-> n]

\* packed_date[a:b] with 0 <= a <= b, as Python slices.
Slice(s, a, b) ==
    SubSeq(s, a + 1, IF b < Len(s) THEN b ELSE Len(s))

\* The field of packed_date read as the years within the century.
YearField(s) == Slice(s, 1, 2)

\* '%d' and '%02d' of a number that is not negative.
RECURSIVE FormatD(_)
FormatD(n) ==
    IF n < 10 THEN <<Digits[n + 1]>>
    ELSE Append(FormatD(n \div 10), Digits[(n % 10) + 1])

Format02D(n) == IF n < 10 THEN <<"0">> \o FormatD(n) ELSE FormatD(n)

IsLeap(y) == (y % 4 = 0 /\ y % 100 # 0) \/ y % 400 = 0

DaysInMonth(y, m) ==
    IF m = 2 THEN (IF IsLeap(y) THEN 29 ELSE 28)
    ELSE IF m \in {4, 6, 9, 11} THEN 30 ELSE 31

\* Time(isot_string, format='isot', scale='tt').mjd for the date y-m-d at
\* 0h: the day number of the Gregorian calendar counted from 1858-11-17;
\* a month or a day that the calendar does not have is a ValueError.
Time_mjd(y, m, d) ==
    IF m < 1 \/ m > 12 \/ d < 1 \/ d > DaysInMonth(y, m)
    THEN [ok |-> FALSE, val |-> 0]
    ELSE LET a == (14 - m) \div 12
             yy == y + 4800 - a
             mm == m + 12 * a - 3
         IN  [ok |-> TRUE,
              val |-> d + (153 * mm + 2) \div 5 + 365 * yy + yy \div 4
                      - yy \div 100 + yy \div 400 - 32045 - 2400001]

unpack_mpc_date(s) ==
    IF Len(s) < 1 THEN [err |-> "IndexError", date |-> NoDate]
    ELSE IF ~mpc_lookup(s[1]).ok \/ ~IntOfStr(YearField(s)).ok
         THEN [err |-> "ValueError", date |-> NoDate]
    ELSE IF Len(s) < 4 THEN [err |-> "IndexError", date |-> NoDate]
    ELSE IF ~mpc_lookup(s[4]).ok THEN [err |-> "ValueError", date |-> NoDate]
    ELSE IF Len(s) < 5 THEN [err |-> "IndexError", date |-> NoDate]
    ELSE IF ~mpc_lookup(s[5]).ok THEN [err |-> "ValueError", date |-> NoDate]
    ELSE LET year == mpc_lookup(s[1]).val * 100 + IntOfStr(YearField(s)).val
             month == mpc_lookup(s[4]).val
             day == mpc_lookup(s[5]).val
             t == Time_mjd(year, month, day)
             d == [year |-> year, month |-> month, day |-> day,
                   fractional_day |-> Slice(s, 5, Len(s)),
                   isot_string |-> FormatD(year) \o <<"-">> \o Format02D(month)
                                   \o <<"-">> \o Format02D(day),
                   mjd |-> t.val]
         IN  IF t.ok THEN [err |-> "", date |-> d]
             ELSE [err |-> "ValueError", date |-> [d EXCEPT !.mjd = 0]]

\* The packed dates _unpack_mpc_date is run on: the two of its comment, and
\* every text of up to five characters, a century letter first, with or
\* without the digits of a fraction of a day after the fifth.
CenturyChars == {"I", "J", "K", "W"}
DateChars == {"0", "1", "2", "9", "A", "M", "V", "W"}
Example1 == <<"J", "9", "8", "1", "I", "7", "3">>
Example2 == <<"K", "0", "1", "A", "M", "1", "3", "8", "3", "0", "3">>
FiveChars ==
    {<<c>> \o r : c \in CenturyChars, r \in [1..4 -> DateChars]}
PackedDates ==
    {Example1, Example2}
    \cup {SubSeq(s, 1, n) : s \in FiveChars, n \in 0..5}
    \cup {s \o <<"7", "3">> : s \in FiveChars}

InitMpc ==
    /\ fn = "_unpack_mpc_date"
    /\ packed_date \in PackedDates
    /\ pc = "unpack"
    /\ date = NoDate
    /\ err = ""
    /\ data = <<>>
    /\ pos = 0
    /\ mi = NoRef
    /\ li = NoRef
    /\ mstore = <<>>
    /\ lstore = <<>>
    /\ metadata = <<>>
    /\ lc = <<>>
    /\ delimiter = <<"|">>
    /\ result = NoResult

UnpackMpcDate ==
    /\ fn = "_unpack_mpc_date"
    /\ pc = "unpack"
    /\ LET r == unpack_mpc_date(packed_date)
       IN  /\ err' = r.err
           /\ date' = r.date
           /\ pc' = IF r.err = "" THEN "returned" ELSE "raised"
    /\ UNCHANGED <<fn, data, pos, mi, li, mstore, lstore, metadata, lc, delimiter,
                   result, packed_date>>

-----------------------------------------------------------------------------

Init == InitAlcdef \/ InitMpc

Next == LoopStep \/ PostPass \/ UnpackMpcDate

Spec == Init /\ [][Next]_vars

-----------------------------------------------------------------------------
(* The file format, as the claims speak of it *)

IsStart(d) == StartsWith(d, STARTMETADATA)
IsEndMeta(d) == StartsWith(d, ENDMETADATA)
IsEndData(d) == StartsWith(d, ENDDATA)
IsDataLine(d) == StartsWith(d, DATA \o <<"=">>)
IsDelimiterLine(d) == StartsWith(d, DELIMITER \o <<"=">>)
IsRecognized(d) ==
    IsStart(d) \/ IsEndMeta(d) \/ IsEndData(d) \/ IsDataLine(d) \/ IsDelimiterLine(d)

\* A call of read_alcdef, at any point of it.
Running == fn = "read_alcdef"

\* The state of the block structure after the lines: OUTSIDE_BLOCK,
\* IN_METADATA, IN_DATA, or ERROR after a marker that was out of order.
RECURSIVE BlockStateFrom(_, _)
BlockStateFrom(st, lines) ==
    IF Len(lines) = 0 \/ st = "ERROR" THEN st
    ELSE LET d == Head(lines)
             nxt == IF IsStart(d)
                    THEN (IF st = "OUTSIDE_BLOCK" THEN "IN_METADATA" ELSE "ERROR")
                    ELSE IF IsEndMeta(d)
                    THEN (IF st = "IN_METADATA" THEN "IN_DATA" ELSE "ERROR")
                    ELSE IF IsEndData(d)
                    THEN (IF st = "IN_DATA" THEN "OUTSIDE_BLOCK" ELSE "ERROR")
                    ELSE st
         IN  BlockStateFrom(nxt, Tail(lines))

BlockState(lines) == BlockStateFrom("OUTSIDE_BLOCK", lines)

\* A well-formed file: blocks one after the other, each STARTMETADATA,
\* metadata lines, ENDMETADATA, DATA lines, ENDDATA, and nothing else.
WellFormed(lines) ==
    /\ BlockState(lines) = "OUTSIDE_BLOCK"
    /\ \A n \in 1..Len(lines) :
          LET before == BlockState(SubSeq(lines, 1, n - 1))
              d == lines[n]
          IN  \/ IsStart(d) \/ IsEndMeta(d) \/ IsEndData(d)
              \/ IsDataLine(d) /\ before = "IN_DATA"
              \/ ~IsDataLine(d) /\ before = "IN_METADATA"

Count(lines, P(_)) == Cardinality({n \in 1..Len(lines) : P(lines[n])})

\* The place of the b-th line of the file that satisfies P.
NthIndex(lines, P(_), b) ==
    CHOOSE n \in 1..Len(lines) : P(lines[n]) /\ Count(SubSeq(lines, 1, n), P) = b

\* The lines of the b-th block of a well-formed file, markers included.
BlockLines(lines, b) ==
    SubSeq(lines, NthIndex(lines, IsStart, b), NthIndex(lines, IsEndData, b))

IsMetaLine(d) == ~IsStart(d) /\ ~IsEndMeta(d) /\ ~IsEndData(d) /\ ~IsDataLine(d)

\* A line without its line end.
Text(d) == IF Len(d) > 0 /\ d[Len(d)] = "\n" THEN SubSeq(d, 1, Len(d) - 1) ELSE d

\* KEY=VALUE cut at the first '=': the key before it, the value all the text
\* after it.
FirstEq(t) == CHOOSE n \in 1..(Len(t) + 1) :
                 /\ n = Len(t) + 1 \/ t[n] = "="
                 /\ \A m \in 1..(n - 1) : t[m] # "="
KeyOf(d) == SubSeq(Text(d), 1, FirstEq(Text(d)) - 1)
ValueOf(d) == SubSeq(Text(d), FirstEq(Text(d)) + 1, Len(Text(d)))

\* The mapping of a block: each key to the value of the last line with it.
MappingOf(lines) ==
    LET ms == SelectSeq(lines, IsMetaLine)
    IN  [k \in {KeyOf(ms[n]) : n \in 1..Len(ms)} |->
            ValueOf(ms[CHOOSE n \in 1..Len(ms) :
                         /\ KeyOf(ms[n]) = k
                         /\ \A m \in (n + 1)..Len(ms) : KeyOf(ms[m]) # k])]

\* The separator a DELIMITER= line names.
NamedSeparator(d) ==
    LET v == ValueOf(d)
    IN  IF StartsWith(v, PIPE) THEN <<"|">>
        ELSE IF StartsWith(v, TAB) THEN <<"\t">>
        ELSE IF StartsWith(v, SPACE) THEN <<" ">>
        ELSE IF StartsWith(v, COMMA) THEN <<",">>
        ELSE <<>>

\* The separator in force after the lines when it is block-scoped: the pipe
\* at each STARTMETADATA, then the one the block's last DELIMITER= line names.
RECURSIVE BlockScopedFrom(_, _)
BlockScopedFrom(sep, lines) ==
    IF Len(lines) = 0 THEN sep
    ELSE LET d == Head(lines)
         IN  BlockScopedFrom(IF IsStart(d) THEN <<"|">>
                             ELSE IF IsDelimiterLine(d) /\ NamedSeparator(d) # <<>>
                                  THEN NamedSeparator(d)
                             ELSE sep,
                             Tail(lines))

BlockScopedDelimiter(lines) == BlockScopedFrom(<<"|">>, lines)

\* The separator in force after the lines when it is file-scoped: the one
\* the last DELIMITER= line of the file so far names, the pipe when none does.
RECURSIVE FileScopedFrom(_, _)
FileScopedFrom(sep, lines) ==
    IF Len(lines) = 0 THEN sep
    ELSE LET d == Head(lines)
         IN  FileScopedFrom(IF IsDelimiterLine(d) /\ NamedSeparator(d) # <<>>
                            THEN NamedSeparator(d) ELSE sep,
                            Tail(lines))

FileScopedDelimiter(lines) == FileScopedFrom(<<"|">>, lines)

\* The fields of a DATA= line: the text after DATA=, cut at each separator.
FieldsOf(d, sep) == Split(SubSeq(Text(d), Len(DATA) + 2, Len(Text(d))), sep)

Minus66 == <<MissingValue, 0>>

IsNumeric(t) == FloatOfStr(t).ok
NumberOf(t) == FloatOfStr(t).val

-----------------------------------------------------------------------------
(* Claims *)

\* C1: a file whose STARTMETADATA/ENDMETADATA/ENDDATA markers are unbalanced
\* or out of order makes read_alcdef fail: it returns only when the block
\* structure at the end of the file is OUTSIDE_BLOCK with no marker out of
\* order, and then with one block per STARTMETADATA, none dropped and none
\* returned twice.
C1_UnbalancedMarkersFail ==
    (Running /\ pc = "returned") =>
        /\ BlockState(data) = "OUTSIDE_BLOCK"
        /\ Len(result.metadata) = Count(data, IsStart)
        /\ Len(result.lc) = Count(data, IsStart)

\* C2: a line outside every STARTMETADATA...ENDDATA envelope that is not a
\* recognized line is ignored: the iteration that reads it raises nothing and
\* leaves every metadata line list, every observation row list and both
\* output lists as they were.
C2_StrayLineIgnored ==
    [][(/\ Running
        /\ pc = "loop"
        /\ pos < Len(data)
        /\ BlockState(SubSeq(data, 1, pos)) = "OUTSIDE_BLOCK"
        /\ ~IsRecognized(data[pos + 1]))
       => (pc' = "loop" /\ UNCHANGED <<mstore, lstore, metadata, lc>>)]_vars

\* The DATA= lines counted for each envelope of the file, in file order: those
\* between a STARTMETADATA and the next ENDDATA after it.
RECURSIVE EnvelopeCountsFrom(_, _, _)
EnvelopeCountsFrom(lines, open, n) ==
    IF Len(lines) = 0 THEN <<>>
    ELSE LET d == Head(lines)
         IN  IF IsStart(d) THEN EnvelopeCountsFrom(Tail(lines), TRUE, 0)
             ELSE IF IsEndData(d) /\ open
                  THEN <<n>> \o EnvelopeCountsFrom(Tail(lines), FALSE, 0)
             ELSE IF IsDataLine(d) /\ open
                  THEN EnvelopeCountsFrom(Tail(lines), open, n + 1)
             ELSE EnvelopeCountsFrom(Tail(lines), open, n)

EnvelopeCounts(lines) == EnvelopeCountsFrom(lines, FALSE, 0)

\* C3: when read_alcdef returns on a file whose markers are balanced and in
\* order, each returned block has as many observations as there are DATA=
\* lines between its STARTMETADATA and its ENDDATA; a DATA= line after the
\* ENDDATA adds no row to any block.
C3_ObservationCount ==
    (Running /\ pc = "returned" /\ BlockState(data) = "OUTSIDE_BLOCK") =>
        /\ Len(result.lc) = Len(EnvelopeCounts(data))
        /\ \A b \in 1..Len(result.lc) :
              Len(result.lc[b].rows) = EnvelopeCounts(data)[b]

\* A DATA= line with no STARTMETADATA line above it.
DataBeforeStart(lines) ==
    \E n \in 1..Len(lines) :
        /\ IsDataLine(lines[n])
        /\ \A m \in 1..(n - 1) : ~IsStart(lines[m])

\* C4: once the loop has read a DATA= line that no STARTMETADATA precedes, the
\* call has failed: it is raised, it returns nothing, and no list, block or
\* observation row has been made.
C4_DataBeforeStartFails ==
    (Running /\ DataBeforeStart(SubSeq(data, 1, pos))) =>
        /\ pc = "raised"
        /\ err \in {"UnboundLocalError", "IndexError"}
        /\ result = NoResult
        /\ mstore = <<>> /\ lstore = <<>> /\ metadata = <<>> /\ lc = <<>>

\* C4 happens: a well-formed DATA= line, read after an ENDDATA line and
\* before any STARTMETADATA, has stopped the call.
C4_Witness ==
    /\ Running /\ pc = "raised" /\ err = "UnboundLocalError"
    /\ pos = 2
    /\ data[1] = L_ENDDATA
    /\ data[2] = L_DATA


\* C5: the delimiter is block-scoped: while the loop runs, the separator in
\* force is the pipe from each STARTMETADATA on, until a DELIMITER= line of
\* that block names another; a block with no DELIMITER= line of its own is
\* split on the pipe whatever an earlier block selected.
C5_DelimiterBlockScoped ==
    (Running /\ pc = "loop") =>
        delimiter = BlockScopedDelimiter(SubSeq(data, 1, pos))

\* C6: a DELIMITER= line in the metadata of a block, naming PIPE, TAB, SPACE
\* or COMMA, raises nothing, makes the named character the separator, and is
\* stored as a metadata line of the block.
C6_DelimiterLineSetsSeparator ==
    (/\ Running
     /\ pc \in {"loop", "raised"}
     /\ pos >= 1
     /\ IsDelimiterLine(data[pos])
     /\ NamedSeparator(data[pos]) # <<>>
     /\ BlockState(SubSeq(data, 1, pos - 1)) = "IN_METADATA")
    => /\ pc = "loop"
       /\ err = ""
       /\ delimiter = NamedSeparator(data[pos])
       /\ Len(mstore[mi]) > 0
       /\ mstore[mi][Len(mstore[mi])] = Text(data[pos])

\* C7: when read_alcdef returns on a well-formed file, the metadata list and
\* the observation-table list have the same length, which is the number of
\* STARTMETADATA lines, of ENDMETADATA lines and of ENDDATA lines, and the
\* b-th entry of each is that of the b-th block of the file: its keys are the
\* keys of that block's metadata lines and its rows are as many as that
\* block's DATA= lines.
C7_WellFormedLengths ==
    (Running /\ pc = "returned" /\ WellFormed(data)) =>
        /\ Len(result.metadata) = Len(result.lc)
        /\ Len(result.metadata) = Count(data, IsStart)
        /\ Len(result.metadata) = Count(data, IsEndMeta)
        /\ Len(result.metadata) = Count(data, IsEndData)
        /\ \A b \in 1..Len(result.metadata) :
              LET block == BlockLines(data, b)
                  ms == SelectSeq(block, IsMetaLine)
              IN  /\ DOMAIN result.metadata[b] = {KeyOf(ms[n]) : n \in 1..Len(ms)}
                  /\ Len(result.lc[b].rows) = Count(block, IsDataLine)

\* C7 happens: a well-formed file of two blocks that differ, the first with
\* the key K and one DATA= line, the second with the key J and none, has been
\* read and returned.
C7_Witness ==
    /\ Running /\ pc = "returned"
    /\ WellFormed(data)
    /\ data = BlockOf(<<L_META>>, <<L_DATA>>) \o BlockOf(<<L_META2>>, <<>>)
    /\ Len(result.metadata) = 2

\* The row a DATA= line gives: JD and Mag the numbers of fields 1 and 2,
\* DeltaMag and Airmass the numbers of fields 3 and 4, or -66 for an empty
\* field; so -66 exactly for an empty field or one that reads -66.
RowTakenFrom(row, d, sep) ==
    LET f == FieldsOf(d, sep)
    IN  /\ Len(row) = 4
        /\ Len(f) >= 4
        /\ IsNumeric(f[1]) => row[1] = NumberOf(f[1])
        /\ IsNumeric(f[2]) /\ row[2] = NumberOf(f[2])
        /\ \A k \in {3, 4} :
              /\ row[k] = Minus66 <=>
                    (f[k] = <<>> \/ (IsNumeric(f[k]) /\ NumberOf(f[k]) = Minus66))
              /\ f[k] # <<>> => (IsNumeric(f[k]) /\ row[k] = NumberOf(f[k]))

\* The places of the DATA= lines that follow the k-th STARTMETADATA of the
\* file, up to the next STARTMETADATA or the end of the file, in file order.
DataPlaces(lines, k) ==
    LET first == NthIndex(lines, IsStart, k)
        last == IF k < Count(lines, IsStart)
                THEN NthIndex(lines, IsStart, k + 1) - 1
                ELSE Len(lines)
    IN  SelectSeq([n \in 1..(last - first) |-> first + n],
                  LAMBDA n : IsDataLine(lines[n]))

C9_MetadataMapping ==
    (Running /\ pc = "returned" /\ WellFormed(data)) =>
        /\ Len(result.metadata) = Count(data, IsStart)
        /\ \A b \in 1..Len(result.metadata) :
              result.metadata[b] = MappingOf(BlockLines(data, b))

\* C10: _unpack_mpc_date decodes the century letter, the two digits of the
\* year, the month character and the day character: J981I73 is 1998-01-18,
\* K01AM138303 is 2001-10-22, and for every packed date it returns on, the
\* year is 100 * lookup(char 0) + the two-digit number of chars 1-2, the month
\* lookup(char 3) and the day lookup(char 4).
C10_PackedDateDecoded ==
    (fn = "_unpack_mpc_date" /\ pc = "returned") =>
        /\ packed_date = Example1 =>
              (date.year = 1998 /\ date.month = 1 /\ date.day = 18)
        /\ packed_date = Example2 =>
              (date.year = 2001 /\ date.month = 10 /\ date.day = 22)
        /\ (IsDigit(packed_date[2]) /\ IsDigit(packed_date[3])) =>
              date.year = 100 * mpc_lookup(packed_date[1]).val
                          + 10 * DigitVal(packed_date[2]) + DigitVal(packed_date[3])
        /\ date.month = mpc_lookup(packed_date[4]).val
        /\ date.day = mpc_lookup(packed_date[5]).val

====
